---- MODULE Spec2Model ----
(***************************************************************************)
(* Radial calendar: the slice-and-dot layout engine useSlicesWithEvents    *)
(* (composables/useSlicesWithEvents), the Vue computed that caches its     *)
(* result, and the 12-hour view that calls it.                             *)
(*   Spec           : the engine evaluated once on inputs drawn from       *)
(*                    bounded sets and on the views' own call sites        *)
(*   SpecReactive   : a caller that mutates its event list and its         *)
(*                    dotPlacement object between reads of the computed    *)
(*   SpecTwelveHour : TwelveHourView.vue with its sample data, keyboard    *)
(*                    navigation and modal                                 *)
(*   SpecApp        : App.vue, the router and the view it shows, with      *)
(*                    the key presses and clicks of a user                 *)
(*                                                                         *)
(* Numbers.  The engine computes with JavaScript numbers; the model keeps  *)
(* them exact, as integers in a fixed unit stated with each definition:    *)
(*   - sliceIndex of an event : units of 1/2   (so 1 is the non-integer    *)
(*     0.5 and Num(i) = 2*i is the integer i)                              *)
(*   - radius factors         : units of 1/100 (45 is 0.45)                *)
(*   - center                 : units of 1/2                               *)
(*   - radius                 : units of 1/200                             *)
(*   - radial distances       : units of 1/20000                           *)
(*   - dot visual radius      : units of 1/1000                            *)
(*   - angles                 : units of 1/(2*numberOfSlices) degree       *)
(* A point center + r*(cos a, sin a) is kept in polar form [r, deg]: the   *)
(* code's x/y are a function of that pair and of the center.               *)
(***************************************************************************)
EXTENDS Integers, Sequences, FiniteSets, TLC

\* ---------------------------------------------------------------- bounds
MaxEvents == 4
MaxSlices == 2
MaxCap == 4
\* the caller of SpecReactive keeps at most MaxPushed events in its list
MaxPushed == 2
\* currentPeriodIndex is followed up to MaxPeriod
MaxPeriod == 2

\* ------------------------------------------------------ program constants
RadiusPercent == 95
ClipPercent == 88
DotRadiusPermille == 18
FullCircle == 360
QuarterTurn == 90

VARIABLES
    \* the arguments of useSlicesWithEvents
    events, numberOfSlices, viewBoxSize, dotPlacement,
    \* the computed: its cached value, whether a dependency changed since the
    \* getter last ran, and how the last call ended
    slicesWithEvents, dirty, outcome,
    \* history: the arguments the getter last ran on
    evaluatedInputs,
    \* TwelveHourView: mounted, currentDateTime (its hour of day; the calendar
    \* day is not kept), highlightedSliceIndex and the modal state
    mounted, currentDateTime, highlightedSliceIndex,
    isModalVisible, selectedSliceEvents, selectedSliceIdentifier,
    \* the app: the router's route table, the name of the current route, and
    \* currentPeriodIndex of the 7-day and 4-week views
    router, routeName, currentPeriodIndex

inputVars == <<events, numberOfSlices, viewBoxSize, dotPlacement>>
computedVars == <<slicesWithEvents, dirty, outcome, evaluatedInputs>>
viewVars == <<mounted, currentDateTime, highlightedSliceIndex,
              isModalVisible, selectedSliceEvents, selectedSliceIdentifier>>

appVars == <<router, routeName, currentPeriodIndex>>

vars == <<inputVars, computedVars, viewVars, appVars>>

\* ------------------------------------------------------------ JS helpers
Min(a, b) == IF a < b THEN a ELSE b
Max(a, b) == IF a > b THEN a ELSE b

\* the integer i as a number in units of 1/2
Num(i) == 2 * i

\* Array.prototype.slice(0, end)
ArraySlice0(s, end) ==
    IF end < 0 THEN SubSeq(s, 1, Max(Len(s) + end, 0))
               ELSE SubSeq(s, 1, Min(end, Len(s)))

\* ------------------------------------------------------------ the engine
center(vbs) == vbs
radius(vbs) == vbs * RadiusPercent
dotVisualRadius(vbs) == vbs * DotRadiusPermille

\* offset = -90, in units of 1/(2n) degree
offsetMutNone(n) == 0
offset(n) == -(QuarterTurn * 2 * n)
\* anglePerSlice = 360 / n, in units of 1/(2n) degree
anglePerSlice(n) == FullCircle * 2
startDeg(i, n) == i * anglePerSlice(n) + offset(n)
endDeg(i, n) == (i + 1) * anglePerSlice(n) + offset(n)
\* midRad = toRadians(startDeg + anglePerSlice / 2)
midDegMutStart(i, n) == startDeg(i, n)
midDeg(i, n) == startDeg(i, n) + anglePerSlice(n) \div 2

\* the views that inline the computation choose the arc flag by the angle:
\* largeArcFlag = anglePerSliceDegrees <= 180 ? 0 : 1
largeArcFlag(n) == IF anglePerSlice(n) <= (FullCircle \div 2) * 2 * n THEN 0 ELSE 1

Polar(r, deg) == [r |-> r, deg |-> deg]

\* the path string `M c c L x1 y1 A r r 0 0 1 x2 y2 Z`, by its commands
wedgePath(i, n, vbs) ==
    [M |-> <<center(vbs), center(vbs)>>,
     L |-> Polar(radius(vbs), startDeg(i, n)),
     A |-> [rx |-> radius(vbs), ry |-> radius(vbs), rotation |-> 0,
            largeArc |-> 0, sweep |-> 1,
            to |-> Polar(radius(vbs), endDeg(i, n))],
     Z |-> TRUE]

\* events.value.filter(e => e.sliceIndex === i)
sliceEventsMutGE(evs, i) == SelectSeq(evs, LAMBDA e : e.sliceIndex >= Num(i))
sliceEventsMutFloor(evs, i) ==
    SelectSeq(evs, LAMBDA e : e.sliceIndex \div 2 = i)
sliceEvents(evs, i) == SelectSeq(evs, LAMBDA e : e.sliceIndex = Num(i))

\* sliceEvents.slice(0, dotPlacement.maxDotsPerSlice)
candidatesMutNoCap(sevs, dp) == sevs
candidates(sevs, dp) == ArraySlice0(sevs, dp.maxDotsPerSlice)

\* dist = radius * (startRadiusFactor + idx * radiusIncrementFactor)
distMutNoIdx(idx, vbs, dp) ==
    radius(vbs) * (dp.startRadiusFactor + dp.radiusIncrementFactor)
dist(idx, vbs, dp) ==
    radius(vbs) * (dp.startRadiusFactor + idx * dp.radiusIncrementFactor)

\* if (dist < radius * 0.88)
insideClipMutLE(d, vbs) == d <= radius(vbs) * ClipPercent
insideClipMutNonNeg(d, vbs) == d >= 0 /\ d < radius(vbs) * ClipPercent
insideClipMutFlipped(d, vbs) == d >= radius(vbs) * ClipPercent
insideClip(d, vbs) == d < radius(vbs) * ClipPercent

\* the forEach((ev, idx) => ...) callback's push
eventDotMutOneFill(ev, idx, i, n, vbs, dp) ==
    [id |-> ev.id,
     at |-> Polar(dist(idx, vbs, dp), midDeg(i, n)),
     fill |-> "black",
     radius |-> dotVisualRadius(vbs)]
eventDot(ev, idx, i, n, vbs, dp) ==
    [id |-> ev.id,
     at |-> Polar(dist(idx, vbs, dp), midDeg(i, n)),
     fill |-> ev.color,
     radius |-> dotVisualRadius(vbs)]

\* the forEach loop over the candidates, from index idx on
RECURSIVE forEachCandidate(_, _, _, _, _, _, _)
forEachCandidate(cands, idx, eventDots, i, n, vbs, dp) ==
    IF idx >= Len(cands) THEN eventDots
    ELSE forEachCandidate(cands, idx + 1,
            IF insideClip(dist(idx, vbs, dp), vbs)
            THEN Append(eventDots, eventDot(cands[idx + 1], idx, i, n, vbs, dp))
            ELSE eventDots,
            i, n, vbs, dp)

sliceId(i) == "slice-" \o ToString(i)

\* originalEvents: sliceEvents
originalEventsMutCapped(sevs, dp) == candidates(sevs, dp)
originalEventsOf(sevs, dp) == sevs

\* one iteration of the for loop: the SliceData pushed for index i
sliceData(evs, i, n, vbs, dp) ==
    LET sevs == sliceEvents(evs, i)
    IN [id |-> sliceId(i),
        d |-> wedgePath(i, n, vbs),
        eventDots |-> forEachCandidate(candidates(sevs, dp), 0, <<>>,
                                       i, n, vbs, dp),
        originalEvents |-> originalEventsOf(sevs, dp)]

\* for (let i = 0; i < numberOfSlices; i++)
loopCountMutInclusive(n) == IF n >= 0 THEN n + 1 ELSE 0
loopCount(n) == IF n > 0 THEN n ELSE 0

useSlicesWithEvents(evs, n, vbs, dp) ==
    [k \in 1..loopCount(n) |-> sliceData(evs, k - 1, n, vbs, dp)]

\* ------------------------------------------------- the inline computation
\* The 4-week and 7-day view modules (and the first 12-hour view, which names
\* the event's field hour instead of sliceIndex) compute slicesWithEvents
\* themselves, from module constants; the constants are parameters here.
centerX(vbs) == vbs
centerY(vbs) == vbs
inlineRadius(vbs) == vbs * 95
inlineDotVisualRadius(vbs) == vbs * 18

\* angleOffsetDegrees = -90 and anglePerSliceDegrees = 360 / numberOfSlices,
\* in units of 1/(2n) degree
angleOffsetDegrees(n) == -(90 * 2 * n)
anglePerSliceDegrees(n) == 360 * 2
startAngleDegrees(i, n) == i * anglePerSliceDegrees(n) + angleOffsetDegrees(n)
endAngleDegrees(i, n) ==
    (i + 1) * anglePerSliceDegrees(n) + angleOffsetDegrees(n)
midAngleDegrees(i, n) == startAngleDegrees(i, n) + anglePerSliceDegrees(n) \div 2

\* `M cx cy L x1 y1 A r r 0 largeArcFlag sweepFlag x2 y2 Z`, by its commands
inlinePath(i, n, vbs) ==
    [M |-> <<centerX(vbs), centerY(vbs)>>,
     L |-> Polar(inlineRadius(vbs), startAngleDegrees(i, n)),
     A |-> [rx |-> inlineRadius(vbs), ry |-> inlineRadius(vbs),
            rotation |-> 0, largeArc |-> largeArcFlag(n), sweep |-> 1,
            to |-> Polar(inlineRadius(vbs), endAngleDegrees(i, n))],
     Z |-> TRUE]

\* events.value.filter((event) => event.sliceIndex === i)
inlineSliceEvents(evs, i) == SelectSeq(evs, LAMBDA event : event.sliceIndex = Num(i))

\* radius * (startRadiusFactor + eventIndex * radiusIncrementFactor)
distanceFromCenter(eventIndex, vbs, dp) ==
    inlineRadius(vbs)
        * (dp.startRadiusFactor + eventIndex * dp.radiusIncrementFactor)

\* sliceEvents.slice(0, maxDotsPerSlice).forEach((event, eventIndex) => ...),
\* from index eventIndex on
RECURSIVE inlineForEach(_, _, _, _, _, _, _)
inlineForEach(shown, eventIndex, eventDots, i, n, vbs, dp) ==
    IF eventIndex >= Len(shown) THEN eventDots
    ELSE inlineForEach(shown, eventIndex + 1,
            IF distanceFromCenter(eventIndex, vbs, dp) < inlineRadius(vbs) * 88
            THEN Append(eventDots,
                        [id |-> shown[eventIndex + 1].id,
                         at |-> Polar(distanceFromCenter(eventIndex, vbs, dp),
                                      midAngleDegrees(i, n)),
                         fill |-> shown[eventIndex + 1].color,
                         radius |-> inlineDotVisualRadius(vbs)])
            ELSE eventDots,
            i, n, vbs, dp)

\* the computed getter: resultSlices after the for loop
resultSlices(evs, n, vbs, dp) ==
    [k \in 1..(IF n > 0 THEN n ELSE 0) |->
        LET i == k - 1
            sevs == inlineSliceEvents(evs, i)
        IN  [id |-> "slice-" \o ToString(i),
             d |-> inlinePath(i, n, vbs),
             eventDots |->
                 inlineForEach(ArraySlice0(sevs, dp.maxDotsPerSlice), 0, <<>>,
                               i, n, vbs, dp),
             originalEvents |-> sevs]]

\* ------------------------------------------------------------ the inputs
Palette == <<"tomato", "gold", "limegreen", "deepskyblue", "mediumpurple">>

\* sliceIndex values, in units of 1/2: -1, 0.5, 0 and 1 (1 is >=
\* numberOfSlices when numberOfSlices is 1)
SliceIndexValues == {-2, 1, Num(0), Num(1)}

CalendarEvent(k, s) ==
    [id |-> "evt" \o ToString(k), sliceIndex |-> s,
     name |-> "event " \o ToString(k),
     color |-> Palette[((k - 1) % Len(Palette)) + 1]]

\* event lists of at most MaxEvents events, with unique ids
EventLists ==
    UNION {{[k \in 1..len |-> CalendarEvent(k, f[k])] :
              f \in [1..len -> SliceIndexValues]} : len \in 0..MaxEvents}

StartRadiusFactors == {-10, 45, 88}
RadiusIncrementFactors == {-15, 0, 15}
DotPlacements ==
    [startRadiusFactor : StartRadiusFactors,
     radiusIncrementFactor : RadiusIncrementFactors,
     maxDotsPerSlice : 0..MaxCap]
SliceCounts == -1..MaxSlices
ViewBoxSizes == {200}

\* the sample data and configuration of the views' call sites
SampleEvent(id, idx, name, color) ==
    [id |-> id, sliceIndex |-> Num(idx), name |-> name, color |-> color]

TwelveHourEvents ==
    << SampleEvent("evt1", 9, "Morning Standup", "tomato"),
       SampleEvent("evt2", 10, "Client Call", "gold"),
       SampleEvent("evt3", 1, "Lunch with Team", "limegreen"),
       SampleEvent("evt4", 2, "Project X Work", "deepskyblue"),
       SampleEvent("evt5", 3, "Review PRs", "mediumpurple"),
       SampleEvent("evt6", 4, "Quick Sync", "lightcoral"),
       SampleEvent("evt7", 8, "Evening Coding", "darkorange"),
       SampleEvent("evt8", 0, "Noon Check-in", "teal"),
       SampleEvent("evt9", 0, "Midnight Task", "indigo"),
       SampleEvent("evt10", 9, "Follow-up Standup", "salmon"),
       SampleEvent("evt11", 9, "Prep for Client Call", "lightsalmon"),
       SampleEvent("evt12", 9, "Quick Email", "peachpuff") >>

SevenDayEvents ==
    << SampleEvent("evtDay1", 0, "Monday Meeting", "tomato"),
       SampleEvent("evtDay2", 0, "Project Alpha", "gold"),
       SampleEvent("evtDay3", 2, "Wednesday Workout", "limegreen"),
       SampleEvent("evtDay4", 4, "Friday Review", "deepskyblue"),
       SampleEvent("evtDay5", 4, "Weekend Prep", "mediumpurple") >>

FourWeekEvents ==
    << SampleEvent("evtWeek1", 0, "Week 1 Planning", "tomato"),
       SampleEvent("evtWeek2", 1, "Week 2 Sprint", "gold"),
       SampleEvent("evtWeek3", 1, "Mid-Sprint Review", "limegreen"),
       SampleEvent("evtWeek4", 3, "Week 4 Wrap-up", "deepskyblue") >>

ViewDotPlacement ==
    [startRadiusFactor |-> 45, radiusIncrementFactor |-> 15,
     maxDotsPerSlice |-> 3]

CallSites ==
    { [events |-> TwelveHourEvents, numberOfSlices |-> 12],
      [events |-> SevenDayEvents, numberOfSlices |-> 7],
      [events |-> FourWeekEvents, numberOfSlices |-> 4] }

\* the arguments as one record
Inputs(evs, n, vbs, dp) ==
    [events |-> evs, numberOfSlices |-> n, viewBoxSize |-> vbs,
     dotPlacement |-> dp]

\* the computed before its first read, and no view mounted
InitComputed ==
    /\ slicesWithEvents = <<>>
    /\ dirty = TRUE
    /\ outcome = "pending"
    /\ evaluatedInputs = <<>>

InitView ==
    /\ mounted = FALSE
    /\ highlightedSliceIndex = 0
    /\ isModalVisible = FALSE
    /\ selectedSliceEvents = <<>>
    /\ selectedSliceIdentifier = ""

\* a view on its own, outside any router
InitNoRouter ==
    /\ router = <<>>
    /\ routeName = ""
    /\ currentPeriodIndex = 0

Init ==
    /\ \/ /\ events \in EventLists
          /\ numberOfSlices \in SliceCounts
          /\ viewBoxSize \in ViewBoxSizes
          /\ dotPlacement \in DotPlacements
       \/ \E c \in CallSites :
             /\ events = c.events
             /\ numberOfSlices = c.numberOfSlices
             /\ viewBoxSize = 200
             /\ dotPlacement = ViewDotPlacement
    /\ InitComputed
    /\ InitView
    /\ InitNoRouter
    /\ currentDateTime = 0

\* const result: SliceData[] = [] : every run of the getter starts from a
\* fresh array, whatever an earlier run returned
freshResult(previous) == <<>>

\* the getter: the fresh array with one SliceData pushed per slice
getter(previous, evs, n, vbs, dp) ==
    freshResult(previous) \o useSlicesWithEvents(evs, n, vbs, dp)

\* events.value after the getter ran: filter and slice copy, they never write
\* to the array they are called on
eventsAfterGetterMutSplice(evs) ==
    SelectSeq(evs, LAMBDA e : e.sliceIndex # Num(0))
eventsAfterGetter(evs) == evs

\* a read of the computed slicesWithEvents while it is dirty runs the getter
Evaluate ==
    /\ dirty
    /\ slicesWithEvents' =
          getter(slicesWithEvents, events, numberOfSlices, viewBoxSize,
                 dotPlacement)
    /\ dirty' = FALSE
    /\ outcome' = "returned"
    /\ evaluatedInputs' =
          Inputs(events, numberOfSlices, viewBoxSize, dotPlacement)
    /\ events' = eventsAfterGetter(events)
    /\ UNCHANGED <<numberOfSlices, viewBoxSize, dotPlacement>>
    /\ UNCHANGED <<viewVars, appVars>>

Next == Evaluate

Spec == Init /\ [][Next]_vars

\* ------------------------------------------------------------ SpecReactive
\* What a change of an argument does to the computed.  The getter reads
\* events.value, and events is a Ref: that read is tracked, and a change of
\* the list marks the computed dirty.  numberOfSlices and viewBoxSize are
\* numbers passed by value and dotPlacement is a plain object: reads of them
\* are not tracked.
trackedMutNone(argument) == FALSE
tracked(argument) == argument = "events"

\* the configurations the caller switches between
ReactiveDotPlacements ==
    { [ViewDotPlacement EXCEPT !.maxDotsPerSlice = m] : m \in {1, 3} }

InitReactive ==
    /\ events = <<>>
    /\ numberOfSlices \in 1..MaxSlices
    /\ viewBoxSize = 200
    /\ dotPlacement = ViewDotPlacement
    /\ InitComputed
    /\ InitView
    /\ InitNoRouter
    /\ currentDateTime = 0

\* events.value.push(ev)
PushEvent(s) ==
    /\ Len(events) < MaxPushed
    /\ events' = Append(events, CalendarEvent(Len(events) + 1, s))
    /\ dirty' = (dirty \/ tracked("events"))
    /\ UNCHANGED <<numberOfSlices, viewBoxSize, dotPlacement>>
    /\ UNCHANGED <<slicesWithEvents, outcome, evaluatedInputs>>
    /\ UNCHANGED <<viewVars, appVars>>

\* events.value.pop()
PopEvent ==
    /\ Len(events) > 0
    /\ events' = SubSeq(events, 1, Len(events) - 1)
    /\ dirty' = (dirty \/ tracked("events"))
    /\ UNCHANGED <<numberOfSlices, viewBoxSize, dotPlacement>>
    /\ UNCHANGED <<slicesWithEvents, outcome, evaluatedInputs>>
    /\ UNCHANGED <<viewVars, appVars>>

\* dotPlacement.maxDotsPerSlice = dp.maxDotsPerSlice
SetDotPlacement(dp) ==
    /\ dp # dotPlacement
    /\ dotPlacement' = dp
    /\ dirty' = (dirty \/ tracked("dotPlacement"))
    /\ UNCHANGED <<events, numberOfSlices, viewBoxSize>>
    /\ UNCHANGED <<slicesWithEvents, outcome, evaluatedInputs>>
    /\ UNCHANGED <<viewVars, appVars>>

NextReactive ==
    \/ Evaluate
    \/ \E s \in SliceIndexValues : PushEvent(s)
    \/ PopEvent
    \/ \E dp \in ReactiveDotPlacements : SetDotPlacement(dp)

SpecReactive == InitReactive /\ [][NextReactive]_vars

\* ---------------------------------------------------------- SpecTwelveHour
\* currentDateTime.value.getHours() of a Date one hour later / earlier
hourAfter(h) == (h + 1) % 24
hourBefore(h) == (h + 23) % 24

\* const currentDateTime = ref(new Date()): any hour of the day
InitTwelveHour ==
    /\ events = TwelveHourEvents
    /\ numberOfSlices = 12
    /\ viewBoxSize = 200
    /\ dotPlacement = ViewDotPlacement
    /\ InitComputed
    /\ InitView
    /\ InitNoRouter
    /\ currentDateTime \in 0..23

\* the onMounted hooks, run after the first render has read slicesWithEvents
Mount ==
    /\ ~mounted
    /\ ~dirty
    /\ mounted' = TRUE
    /\ highlightedSliceIndex' = currentDateTime % 12
    /\ UNCHANGED <<currentDateTime, isModalVisible, selectedSliceEvents,
                   selectedSliceIdentifier>>
    /\ UNCHANGED <<inputVars, computedVars, appVars>>

moveHighlightForwardMutWrap(h) == (h + 1) % numberOfSlices
moveHighlightForward(h) == IF h < numberOfSlices - 1 THEN h + 1 ELSE h
moveHighlightBackward(h) == IF h > 0 THEN h - 1 ELSE h

\* handleViewKeydown, event.key === 'ArrowRight'
ArrowRight ==
    /\ mounted
    /\ currentDateTime' = hourAfter(currentDateTime)
    /\ highlightedSliceIndex' = moveHighlightForward(highlightedSliceIndex)
    /\ UNCHANGED <<mounted, isModalVisible, selectedSliceEvents,
                   selectedSliceIdentifier>>
    /\ UNCHANGED <<inputVars, computedVars, appVars>>

\* handleViewKeydown, event.key === 'ArrowLeft'
ArrowLeft ==
    /\ mounted
    /\ currentDateTime' = hourBefore(currentDateTime)
    /\ highlightedSliceIndex' = moveHighlightBackward(highlightedSliceIndex)
    /\ UNCHANGED <<mounted, isModalVisible, selectedSliceEvents,
                   selectedSliceIdentifier>>
    /\ UNCHANGED <<inputVars, computedVars, appVars>>

\* selectedSliceEvents.value = slice.originalEvents
clickedEventsMutDotted(slice) ==
    ArraySlice0(slice.originalEvents, Len(slice.eventDots))
clickedEvents(slice) == slice.originalEvents

\* `Hour ${sliceHour} ${periodAmPm}`
sliceIdentifier(sliceIndex, hours) ==
    "Hour " \o ToString(IF sliceIndex = 0 THEN 12 ELSE sliceIndex)
            \o " " \o (IF hours < 12 THEN "AM" ELSE "PM")

\* @click="handleSliceClick(sliceData, index)" on the index-th rendered slice
handleSliceClick(index) ==
    /\ mounted
    /\ index + 1 \in DOMAIN slicesWithEvents
    /\ selectedSliceEvents' = clickedEvents(slicesWithEvents[index + 1])
    /\ selectedSliceIdentifier' = sliceIdentifier(index, currentDateTime)
    /\ isModalVisible' = TRUE
    /\ UNCHANGED <<mounted, currentDateTime, highlightedSliceIndex>>
    /\ UNCHANGED <<inputVars, computedVars, appVars>>

closeModalMutClearsList ==
    /\ isModalVisible
    /\ isModalVisible' = FALSE
    /\ selectedSliceEvents' = <<>>
    /\ UNCHANGED <<mounted, currentDateTime, highlightedSliceIndex,
                   selectedSliceIdentifier>>
    /\ UNCHANGED <<inputVars, computedVars, appVars>>
closeModal ==
    /\ isModalVisible
    /\ isModalVisible' = FALSE
    /\ UNCHANGED <<mounted, currentDateTime, highlightedSliceIndex,
                   selectedSliceEvents, selectedSliceIdentifier>>
    /\ UNCHANGED <<inputVars, computedVars, appVars>>

NextTwelveHour ==
    \/ Evaluate
    \/ Mount
    \/ ArrowRight
    \/ ArrowLeft
    \/ \E index \in 0..11 : handleSliceClick(index)
    \/ closeModal

SpecTwelveHour == InitTwelveHour /\ [][NextTwelveHour]_vars

\* ----------------------------------------------------------------- SpecApp
\* App.vue: the view stack, by route names
viewStackOrder == <<"4week", "7day", "12hour">>

\* The view modules, by the file that holds them.  The 7-day view is there
\* twice: SevenDayView.vue computes its slices inline, has no key handler and
\* no currentPeriodIndex; src/unnamed/part_002 calls the composable.
\*   composable : calls useSlicesWithEvents (else the inline computation)
\*   keydown    : registers handleViewKeydown on mount
\*   vForIndex  : the template's v-for declares index
\*   label      : the word of selectedSliceIdentifier
ViewModule(component) ==
    CASE component = "TwelveHourView.vue" ->
           [events |-> TwelveHourEvents, numberOfSlices |-> 12,
            composable |-> TRUE, keydown |-> TRUE, vForIndex |-> TRUE,
            label |-> "Hour"]
      [] component = "SevenDayView.vue" ->
           [events |-> SevenDayEvents, numberOfSlices |-> 7,
            composable |-> FALSE, keydown |-> FALSE, vForIndex |-> FALSE,
            label |-> "Week"]
      [] component = "part_002" ->
           [events |-> SevenDayEvents, numberOfSlices |-> 7,
            composable |-> TRUE, keydown |-> TRUE, vForIndex |-> TRUE,
            label |-> "Day"]
      [] component = "FourWeekView.vue" ->
           [events |-> FourWeekEvents, numberOfSlices |-> 4,
            composable |-> FALSE, keydown |-> TRUE, vForIndex |-> FALSE,
            label |-> "Week"]

\* src/router/index.ts: one route
RouterOneRoute ==
    << [path |-> "/", name |-> "TwelveHourView",
        component |-> "TwelveHourView.vue"] >>

\* src/unnamed/part_001: a route per view; sevenDay is the module behind
\* '../views/SevenDayView.vue'
RouterThreeRoutes(sevenDay) ==
    << [path |-> "/", name |-> "12hour", component |-> "TwelveHourView.vue"],
       [path |-> "/7day", name |-> "7day", component |-> sevenDay],
       [path |-> "/4week", name |-> "4week", component |-> "FourWeekView.vue"] >>

Routers ==
    {RouterOneRoute}
        \cup {RouterThreeRoutes(c) : c \in {"SevenDayView.vue", "part_002"}}

\* the route record of a name / of a path in a route table
RouteNamed(r, name) == r[CHOOSE p \in DOMAIN r : r[p].name = name]
RouteAt(r, path) == r[CHOOSE p \in DOMAIN r : r[p].path = path]

\* the module RouterView shows
component == RouteNamed(router, routeName).component

\* Array.prototype.indexOf, 0-based, -1 when absent
indexOf(seq, x) ==
    IF \E p \in DOMAIN seq : seq[p] = x
    THEN (CHOOSE p \in DOMAIN seq :
              seq[p] = x /\ \A q \in 1..(p - 1) : seq[q] # x) - 1
    ELSE -1

\* App.vue handleKeydown: the name of the route after the key press
targetRouteNameMutNoWrap(currentRouteName, key) ==
    LET currentIndex == indexOf(viewStackOrder, currentRouteName)
        nextIndex ==
            IF key = "ArrowUp"
            THEN (IF currentIndex > 0 THEN currentIndex - 1 ELSE -1)
            ELSE IF key = "ArrowDown"
            THEN (IF currentIndex < Len(viewStackOrder) - 1
                  THEN currentIndex + 1 ELSE -1)
            ELSE -1
    IN  IF currentIndex = -1 THEN currentRouteName
        ELSE IF nextIndex # -1 /\ nextIndex # currentIndex
        THEN viewStackOrder[nextIndex + 1]
        ELSE currentRouteName
targetRouteName(currentRouteName, key) ==
    LET currentIndex == indexOf(viewStackOrder, currentRouteName)
        nextIndex ==
            IF key = "ArrowUp"
            THEN (IF currentIndex > 0 THEN currentIndex - 1
                  ELSE Len(viewStackOrder) - 1)
            ELSE IF key = "ArrowDown"
            THEN (IF currentIndex < Len(viewStackOrder) - 1
                  THEN currentIndex + 1 ELSE 0)
            ELSE -1
    IN  IF currentIndex = -1 THEN currentRouteName
        ELSE IF nextIndex # -1 /\ nextIndex # currentIndex
        THEN viewStackOrder[nextIndex + 1]
        ELSE currentRouteName

\* the hour of new Date() in the 12-hour view's currentDateTime; the other
\* views keep no clock
clockHours(view) == IF view = "TwelveHourView.vue" THEN 0..23 ELSE {0}

\* the app starts at the route of path '/', with that view set up and
\* neither rendered nor mounted
InitApp ==
    /\ router \in Routers
    /\ routeName = RouteAt(router, "/").name
    /\ events = ViewModule(RouteAt(router, "/").component).events
    /\ numberOfSlices =
          ViewModule(RouteAt(router, "/").component).numberOfSlices
    /\ viewBoxSize = 200
    /\ dotPlacement = ViewDotPlacement
    /\ InitComputed
    /\ InitView
    /\ currentDateTime \in clockHours(RouteAt(router, "/").component)
    /\ currentPeriodIndex = 0

\* the inline computed slicesWithEvents, read while dirty
EvaluateInline ==
    /\ dirty
    /\ slicesWithEvents' =
          resultSlices(events, numberOfSlices, viewBoxSize, dotPlacement)
    /\ dirty' = FALSE
    /\ outcome' = "returned"
    /\ evaluatedInputs' =
          Inputs(events, numberOfSlices, viewBoxSize, dotPlacement)
    /\ UNCHANGED <<inputVars, viewVars, appVars>>

\* the first render of the view
RenderView ==
    \/ ViewModule(component).composable /\ Evaluate
    \/ ~ViewModule(component).composable /\ EvaluateInline

\* onMounted of a 7-day or 4-week view (its key handler, if it has one)
MountPeriodView ==
    /\ ~mounted
    /\ ~dirty
    /\ mounted' = TRUE
    /\ UNCHANGED <<currentDateTime, highlightedSliceIndex, isModalVisible,
                   selectedSliceEvents, selectedSliceIdentifier>>
    /\ UNCHANGED <<inputVars, computedVars, appVars>>

MountView ==
    \/ component = "TwelveHourView.vue" /\ Mount
    \/ component # "TwelveHourView.vue" /\ MountPeriodView

\* moveForward / moveBackward of the 7-day and 4-week views
moveForward(p) == p + 1
moveBackwardMutBelowZero(p) == p - 1
moveBackward(p) == IF p > 0 THEN p - 1 ELSE p

\* Key presses reach the handlers once the view is mounted: a view is set
\* up, rendered and mounted in one go, before the next event is dispatched.
\* Its handleViewKeydown is then registered, if it has one.
ViewListens == ViewModule(component).keydown

PeriodStep(p) ==
    /\ currentPeriodIndex' = p
    /\ UNCHANGED <<router, routeName>>
    /\ UNCHANGED <<inputVars, computedVars, viewVars>>

\* keydown ArrowRight, dispatched to every handler on window
KeydownArrowRight ==
    \/ component = "TwelveHourView.vue" /\ ArrowRight
    \/ /\ component # "TwelveHourView.vue"
       /\ mounted
       /\ ViewListens
       /\ currentPeriodIndex < MaxPeriod
       /\ PeriodStep(moveForward(currentPeriodIndex))
    \/ mounted /\ ~ViewListens /\ UNCHANGED vars

\* keydown ArrowLeft
KeydownArrowLeft ==
    \/ component = "TwelveHourView.vue" /\ ArrowLeft
    \/ /\ component # "TwelveHourView.vue"
       /\ mounted
       /\ ViewListens
       /\ PeriodStep(moveBackward(currentPeriodIndex))
    \/ mounted /\ ~ViewListens /\ UNCHANGED vars

\* router.push({ name }): RouterView replaces the view by the one of the new
\* route, whose script setup runs anew
ReplaceView(name) ==
    /\ routeName' = name
    /\ events' = ViewModule(RouteNamed(router, name).component).events
    /\ numberOfSlices' =
          ViewModule(RouteNamed(router, name).component).numberOfSlices
    /\ viewBoxSize' = 200
    /\ dotPlacement' = ViewDotPlacement
    /\ slicesWithEvents' = <<>>
    /\ dirty' = TRUE
    /\ outcome' = "pending"
    /\ evaluatedInputs' = <<>>
    /\ mounted' = FALSE
    /\ highlightedSliceIndex' = 0
    /\ isModalVisible' = FALSE
    /\ selectedSliceEvents' = <<>>
    /\ selectedSliceIdentifier' = ""
    /\ currentDateTime' \in clockHours(RouteNamed(router, name).component)
    /\ currentPeriodIndex' = 0
    /\ UNCHANGED router

\* keydown ArrowUp: App.vue handleKeydown pushes the route above, if any
KeydownArrowUp ==
    \/ /\ mounted
       /\ targetRouteName(routeName, "ArrowUp") # routeName
       /\ ReplaceView(targetRouteName(routeName, "ArrowUp"))
    \/ /\ mounted
       /\ targetRouteName(routeName, "ArrowUp") = routeName
       /\ UNCHANGED vars

\* keydown ArrowDown: App.vue handleKeydown pushes the route below, if any
KeydownArrowDown ==
    \/ /\ mounted
       /\ targetRouteName(routeName, "ArrowDown") # routeName
       /\ ReplaceView(targetRouteName(routeName, "ArrowDown"))
    \/ /\ mounted
       /\ targetRouteName(routeName, "ArrowDown") = routeName
       /\ UNCHANGED vars

\* keydown Escape: the modal's handler emits close only while it is visible
KeydownEscape ==
    \/ isModalVisible /\ closeModal
    \/ mounted /\ ~isModalVisible /\ UNCHANGED vars

\* any other key: no handler acts on it
KeydownOther == mounted /\ UNCHANGED vars

\* the second argument of handleSliceClick in the template: the v-for's index
\* where it declares one, else undefined (the empty tuple)
templateIndex(i) == IF ViewModule(component).vForIndex THEN <<i>> ELSE <<>>

\* `${label} ${sliceIndex + 1}`; undefined + 1 is NaN
ordinalIdentifier(label, sliceIndex) ==
    label \o " " \o (IF sliceIndex = <<>> THEN "NaN"
                     ELSE ToString(sliceIndex[1] + 1))

\* a click on the i-th rendered slice of a 7-day or 4-week view
periodSliceClick(i) ==
    /\ mounted
    /\ i + 1 \in DOMAIN slicesWithEvents
    /\ selectedSliceEvents' = slicesWithEvents[i + 1].originalEvents
    /\ selectedSliceIdentifier' =
          ordinalIdentifier(ViewModule(component).label, templateIndex(i))
    /\ isModalVisible' = TRUE
    /\ UNCHANGED <<mounted, currentDateTime, highlightedSliceIndex>>
    /\ UNCHANGED <<inputVars, computedVars, appVars>>

ClickSlice(i) ==
    \/ component = "TwelveHourView.vue" /\ handleSliceClick(i)
    \/ component # "TwelveHourView.vue" /\ periodSliceClick(i)

\* the modal's close button and its overlay (@click.self) emit close; both
\* exist only while the modal is visible (v-if)
ClickCloseButton == isModalVisible /\ closeModal
ClickOverlay == isModalVisible /\ closeModal

NextApp ==
    \/ RenderView
    \/ MountView
    \/ KeydownArrowRight
    \/ KeydownArrowLeft
    \/ KeydownArrowUp
    \/ KeydownArrowDown
    \/ KeydownEscape
    \/ KeydownOther
    \/ \E i \in 0..11 : ClickSlice(i)
    \/ ClickCloseButton
    \/ ClickOverlay

SpecApp == InitApp /\ [][NextApp]_vars

\* ------------------------------------------------------- claim vocabulary
Evaluated == outcome = "returned"

\* the 0-based slice indices of the current configuration
SliceIndices == 0..(numberOfSlices - 1)

\* number of positions of seq that hold x
Count(seq, x) == Cardinality({p \in DOMAIN seq : seq[p] = x})

\* the slice record computed for index i
SliceAt(i) == slicesWithEvents[i + 1]

\* the event ev is represented by a dot of slice record s
HasDot(s, ev) == \E q \in DOMAIN s.eventDots : s.eventDots[q].id = ev.id

\* the event's sliceIndex is an integer of [0, numberOfSlices)
InRange(ev) == \E j \in SliceIndices : ev.sliceIndex = Num(j)

\* C1 (Bucketing): once the engine has returned for a positive slice count,
\* every input event whose sliceIndex is an integer j of [0, N) occurs exactly
\* once in originalEvents of slice j and in no other slice's originalEvents,
\* and every member of an originalEvents list is such an in-range input event.
C1_Bucketing ==
    (Evaluated /\ numberOfSlices >= 1) =>
        /\ Len(slicesWithEvents) = numberOfSlices
        /\ \A p \in DOMAIN events : \A j \in SliceIndices :
              events[p].sliceIndex = Num(j) =>
                 \A i \in SliceIndices :
                    Count(SliceAt(i).originalEvents, events[p])
                        = (IF i = j THEN 1 ELSE 0)
        /\ \A i \in SliceIndices :
              \A q \in DOMAIN SliceAt(i).originalEvents :
                 \E p \in DOMAIN events :
                    /\ events[p] = SliceAt(i).originalEvents[q]
                    /\ InRange(events[p])

C1_Witness ==
    /\ Evaluated
    /\ numberOfSlices = 2
    /\ Len(slicesWithEvents) = 2
    /\ Len(SliceAt(0).originalEvents) = 2
    /\ Len(SliceAt(1).originalEvents) = 1
    /\ Len(events) = 4

\* C2 (Cap): in every slice of a computed result the number of dots is at most
\* min(maxDotsPerSlice, number of the slice's events), and an event at position
\* >= maxDotsPerSlice of its slice has no dot.
C2_Cap ==
    Evaluated =>
        \A n \in DOMAIN slicesWithEvents :
            LET s == slicesWithEvents[n]
            IN /\ Len(s.eventDots)
                    <= Min(dotPlacement.maxDotsPerSlice, Len(s.originalEvents))
               /\ \A k \in 0..(Len(s.originalEvents) - 1) :
                     k >= dotPlacement.maxDotsPerSlice =>
                        ~HasDot(s, s.originalEvents[k + 1])

C2_Witness ==
    /\ Evaluated
    /\ dotPlacement.maxDotsPerSlice = 3
    /\ \E n \in DOMAIN slicesWithEvents :
          /\ Len(slicesWithEvents[n].originalEvents) = 4
          /\ Len(slicesWithEvents[n].eventDots) = 3

\* C3 (Radial clipping): the k-th event of a slice has a dot exactly when
\* k < maxDotsPerSlice and sliceRadius * (startRadiusFactor + k *
\* radiusIncrementFactor) < 0.88 * sliceRadius, with sliceRadius =
\* 0.95 * viewBoxSize / 2 (both sides in units of 1/20000).
C3_RadialClipping ==
    Evaluated =>
        \A n \in DOMAIN slicesWithEvents :
            LET s == slicesWithEvents[n]
            IN \A k \in 0..(Len(s.originalEvents) - 1) :
                  HasDot(s, s.originalEvents[k + 1]) <=>
                     /\ k < dotPlacement.maxDotsPerSlice
                     /\ viewBoxSize * 95 * (dotPlacement.startRadiusFactor
                            + k * dotPlacement.radiusIncrementFactor)
                          < 88 * (viewBoxSize * 95)

\* Scenario B: cap 4, factors 0.45 / 0.15, viewBoxSize 200; the 4th candidate
\* sits at 85.5 = 1710000/20000 >= 83.6 = 1672000/20000 and is dropped.
C3_Witness ==
    /\ Evaluated
    /\ viewBoxSize = 200
    /\ dotPlacement = [startRadiusFactor |-> 45, radiusIncrementFactor |-> 15,
                       maxDotsPerSlice |-> 4]
    /\ 200 * 95 * (45 + 3 * 15) = 1710000
    /\ 88 * (200 * 95) = 1672000
    /\ \E n \in DOMAIN slicesWithEvents :
          /\ Len(slicesWithEvents[n].originalEvents) = 4
          /\ Len(slicesWithEvents[n].eventDots) = 3
          /\ ~HasDot(slicesWithEvents[n], slicesWithEvents[n].originalEvents[4])

\* C4 (Shape of the result): for a positive slice count N the result has
\* exactly N entries, entry i has id "slice-i", every entry carries a closed
\* wedge path from the center with an arc of the slice radius, and a slice that
\* no event matches has an empty eventDots list.
C4_ResultShape ==
    (Evaluated /\ numberOfSlices >= 1) =>
        /\ Len(slicesWithEvents) = numberOfSlices
        /\ \A i \in SliceIndices :
              i + 1 \in DOMAIN slicesWithEvents =>
                 /\ SliceAt(i).id = "slice-" \o ToString(i)
                 /\ SliceAt(i).d.M = <<viewBoxSize, viewBoxSize>>
                 /\ SliceAt(i).d.L.r = viewBoxSize * 95
                 /\ SliceAt(i).d.A.rx = viewBoxSize * 95
                 /\ SliceAt(i).d.A.to.r = viewBoxSize * 95
                 /\ SliceAt(i).d.Z
                 /\ (\A p \in DOMAIN events : events[p].sliceIndex # Num(i))
                       => SliceAt(i).eventDots = <<>>

\* Scenario D: slice 0 has no event, slice 1 has dots.
C4_Witness ==
    /\ Evaluated
    /\ numberOfSlices = 2
    /\ Len(slicesWithEvents) = 2
    /\ \A p \in DOMAIN events : events[p].sliceIndex # Num(0)
    /\ SliceAt(0).eventDots = <<>>
    /\ SliceAt(0).d.Z
    /\ Len(SliceAt(1).eventDots) >= 1

\* C5 (Out-of-range events): an event whose sliceIndex is negative, >= N or
\* not an integer is in no slice's originalEvents and has no dot in any slice,
\* and the call still returns normally.
C5_OutOfRange ==
    (outcome # "pending") =>
        /\ outcome = "returned"
        /\ \A p \in DOMAIN events :
              ~InRange(events[p]) =>
                 \A n \in DOMAIN slicesWithEvents :
                    /\ Count(slicesWithEvents[n].originalEvents, events[p]) = 0
                    /\ ~HasDot(slicesWithEvents[n], events[p])

\* a negative, a fractional and a too-large sliceIndex next to an in-range one
C5_Witness ==
    /\ Evaluated
    /\ numberOfSlices = 1
    /\ Len(slicesWithEvents) = 1
    /\ \E p \in DOMAIN events : events[p].sliceIndex = -2
    /\ \E p \in DOMAIN events : events[p].sliceIndex = 1
    /\ \E p \in DOMAIN events : events[p].sliceIndex = Num(1)
    /\ \E p \in DOMAIN events : events[p].sliceIndex = Num(0)
    /\ Len(SliceAt(0).eventDots) = 1

\* the dot ids of slice record s, in order
DotIds(s) == [q \in DOMAIN s.eventDots |-> s.eventDots[q].id]

\* the ids of the first m events of slice record s
PrefixIds(s, m) == [q \in 1..m |-> s.originalEvents[q].id]

\* the position in the input list of an event (ids are unique)
PosOf(ev) == CHOOSE p \in DOMAIN events : events[p].id = ev.id

\* C6 as stated: a call with numberOfSlices <= 0 ends in an
\* InvalidConfiguration error.
C6_InvalidSliceCountIsError ==
    (outcome # "pending" /\ numberOfSlices <= 0) =>
        outcome = "InvalidConfiguration"

\* C6 (amended): a call with numberOfSlices <= 0 raises no error; it returns
\* normally with an empty result sequence.
C6_InvalidSliceCountReturnsEmpty ==
    (outcome # "pending" /\ numberOfSlices <= 0) =>
        /\ outcome = "returned"
        /\ slicesWithEvents = <<>>

C6_Witness ==
    /\ Evaluated
    /\ numberOfSlices = 0
    /\ Len(events) = 2
    /\ \E p \in DOMAIN events : events[p].sliceIndex = Num(0)
    /\ slicesWithEvents = <<>>

\* C7 as stated: a call with a negative startRadiusFactor or
\* radiusIncrementFactor (and a valid slice count) ends in an
\* InvalidConfiguration error and produces no slices and no dots.
C7_NegativeFactorIsError ==
    (outcome # "pending" /\ numberOfSlices >= 1
        /\ (dotPlacement.startRadiusFactor < 0
              \/ dotPlacement.radiusIncrementFactor < 0)) =>
        /\ outcome = "InvalidConfiguration"
        /\ slicesWithEvents = <<>>

\* C7 (amended): a call with a negative startRadiusFactor or
\* radiusIncrementFactor raises no error; it returns one slice per index of
\* [0, N) as for any other configuration, and the k-th event of a slice gets a
\* dot exactly when k < maxDotsPerSlice and startRadiusFactor + k *
\* radiusIncrementFactor < 0.88, dots at negative distances included.
C7_NegativeFactorIsLaidOut ==
    (outcome # "pending"
        /\ (dotPlacement.startRadiusFactor < 0
              \/ dotPlacement.radiusIncrementFactor < 0)) =>
        /\ outcome = "returned"
        /\ Len(slicesWithEvents) = Max(numberOfSlices, 0)
        /\ \A n \in DOMAIN slicesWithEvents :
              LET s == slicesWithEvents[n]
              IN \A k \in 0..(Len(s.originalEvents) - 1) :
                    HasDot(s, s.originalEvents[k + 1]) <=>
                       /\ k < dotPlacement.maxDotsPerSlice
                       /\ dotPlacement.startRadiusFactor
                             + k * dotPlacement.radiusIncrementFactor < 88

\* a dot placed at a negative distance from the center
C7_Witness ==
    /\ Evaluated
    /\ dotPlacement.startRadiusFactor < 0
    /\ numberOfSlices = 2
    /\ \E n \in DOMAIN slicesWithEvents :
          \E q \in DOMAIN slicesWithEvents[n].eventDots :
             slicesWithEvents[n].eventDots[q].at.r < 0

\* the radial distances of the dots of every slice strictly increase
StrictlyIncreasingRadii ==
    \A n \in DOMAIN slicesWithEvents :
        LET dots == slicesWithEvents[n].eventDots
        IN \A a, b \in DOMAIN dots : a < b => dots[a].at.r < dots[b].at.r

\* C8 as stated: for every configuration with finite factors and
\* maxDotsPerSlice >= 0 the dots' radial distances strictly increase.
C8_MonotonicRadiusAnyFactors ==
    (Evaluated /\ dotPlacement.maxDotsPerSlice >= 0) => StrictlyIncreasingRadii

\* C8 (amended): when radiusIncrementFactor > 0 (and viewBoxSize > 0), the
\* radial distances of the dots of every slice strictly increase with the
\* candidate index.
C8_MonotonicRadius ==
    (Evaluated /\ dotPlacement.maxDotsPerSlice >= 0
        /\ dotPlacement.radiusIncrementFactor > 0 /\ viewBoxSize > 0)
      => StrictlyIncreasingRadii

\* Scenario A: three dots at 42.75, 57.0, 71.25 (units of 1/20000)
C8_Witness ==
    /\ Evaluated
    /\ dotPlacement.radiusIncrementFactor = 15
    /\ \E n \in DOMAIN slicesWithEvents :
          LET dots == slicesWithEvents[n].eventDots
          IN /\ Len(dots) = 3
             /\ dots[1].at.r = 855000
             /\ dots[2].at.r = 1140000
             /\ dots[3].at.r = 1425000

\* in every slice: a candidate under the cap that got no dot is followed only
\* by events without a dot, and the dots are those of a prefix of the slice's
\* events
DotsArePrefix ==
    \A n \in DOMAIN slicesWithEvents :
        LET s == slicesWithEvents[n]
        IN /\ \A k \in 0..(Len(s.originalEvents) - 1) :
                 (k < dotPlacement.maxDotsPerSlice
                     /\ ~HasDot(s, s.originalEvents[k + 1])) =>
                    \A k2 \in (k + 1)..(Len(s.originalEvents) - 1) :
                       ~HasDot(s, s.originalEvents[k2 + 1])
           /\ Len(s.eventDots) <= Len(s.originalEvents)
           /\ DotIds(s) = PrefixIds(s, Min(Len(s.eventDots), Len(s.originalEvents)))

\* C9 as stated: within any slice the events with dots are a prefix of
\* originalEvents.
C9_DotsArePrefixAnyFactors == Evaluated => DotsArePrefix

\* C9 (amended): when radiusIncrementFactor >= 0 (and viewBoxSize > 0), a
\* candidate dropped by radial clipping is followed only by dropped candidates,
\* so the events with dots are a prefix of the slice's originalEvents.
C9_DotsArePrefix ==
    (Evaluated /\ dotPlacement.radiusIncrementFactor >= 0 /\ viewBoxSize > 0)
      => DotsArePrefix

\* factors 0.88 / 0.15: candidate 0 sits on the threshold and is clipped, and
\* so are candidates 1 and 2 behind it
C9_Witness ==
    /\ Evaluated
    /\ dotPlacement = [startRadiusFactor |-> 88, radiusIncrementFactor |-> 15,
                       maxDotsPerSlice |-> 3]
    /\ \E n \in DOMAIN slicesWithEvents :
          /\ Len(slicesWithEvents[n].originalEvents) = 3
          /\ slicesWithEvents[n].eventDots = <<>>

\* C10 (originalEvents): originalEvents of slice i holds every input event with
\* sliceIndex = i and nothing else, each once and in input order, whatever
\* maxDotsPerSlice and radial clipping do to the dots.
C10_OriginalEvents ==
    Evaluated =>
        \A n \in DOMAIN slicesWithEvents :
            LET o == slicesWithEvents[n].originalEvents
            IN /\ Len(o) = Cardinality({p \in DOMAIN events :
                                          events[p].sliceIndex = Num(n - 1)})
               /\ \A q \in DOMAIN o :
                     \E p \in DOMAIN events :
                        /\ events[p] = o[q]
                        /\ events[p].sliceIndex = Num(n - 1)
               /\ \A a, b \in DOMAIN o : a < b => PosOf(o[a]) < PosOf(o[b])

\* slice 0 holds events 1, 3, 4 of the input, only one of them with a dot
C10_Witness ==
    /\ Evaluated
    /\ numberOfSlices = 2
    /\ Len(events) = 4
    /\ events[2].sliceIndex = Num(1)
    /\ dotPlacement.maxDotsPerSlice = 1
    /\ Len(slicesWithEvents) = 2
    /\ Len(SliceAt(0).originalEvents) = 3
    /\ Len(SliceAt(0).eventDots) = 1

\* C11 (Arc flags): once the engine has returned for a positive slice count N,
\* the arc of every wedge path has large-arc-flag 0 when 360/N <= 180 and 1
\* otherwise (1 exactly when N = 1), and sweep-flag 1.
C11_ArcFlags ==
    Evaluated /\ numberOfSlices >= 1 =>
        \A i \in SliceIndices :
            /\ SliceAt(i).d.A.largeArc = largeArcFlag(numberOfSlices)
            /\ (SliceAt(i).d.A.largeArc = 1) <=> (numberOfSlices = 1)
            /\ SliceAt(i).d.A.sweep = 1

\* the sum of the angular spans of the first k slices, in 1/(2N) degree
RECURSIVE SpanSum(_)
SpanSum(k) ==
    IF k = 0 THEN 0
    ELSE SpanSum(k - 1) + (SliceAt(k - 1).d.A.to.deg - SliceAt(k - 1).d.L.deg)

\* C12 (Partition and orientation): once the engine has returned for a
\* positive slice count N, the wedge of slice i starts at i*(360/N) - 90 degrees
\* and ends at (i+1)*(360/N) - 90 degrees; slice 0 starts at -90; start angles
\* strictly increase with i; the end of slice i is the start of slice i+1; and
\* the N spans sum to 360 degrees.  Angles are in units of 1/(2N) degree.
C12_Partition ==
    Evaluated /\ numberOfSlices >= 1 =>
        /\ \A i \in SliceIndices :
              /\ SliceAt(i).d.L.deg = 720 * i - 180 * numberOfSlices
              /\ SliceAt(i).d.A.to.deg = 720 * (i + 1) - 180 * numberOfSlices
              /\ SliceAt(i).d.A.to.deg - SliceAt(i).d.L.deg = 720
        /\ SliceAt(0).d.L.deg = -90 * (2 * numberOfSlices)
        /\ \A i, j \in SliceIndices :
              i < j => SliceAt(i).d.L.deg < SliceAt(j).d.L.deg
        /\ \A i \in SliceIndices :
              i + 1 \in SliceIndices =>
                  SliceAt(i).d.A.to.deg = SliceAt(i + 1).d.L.deg
        /\ SpanSum(numberOfSlices) = 360 * (2 * numberOfSlices)

\* the 12-hour view's wheel: twelve wedges, the last one ending at 270 degrees
C12_Witness ==
    /\ Evaluated
    /\ numberOfSlices = 12
    /\ Len(slicesWithEvents) = 12
    /\ SliceAt(0).d.L.deg = -90 * 24
    /\ SliceAt(11).d.A.to.deg = 270 * 24

\* C14 (Purity): a run of the getter leaves the event list (length, order and
\* every field of every event), dotPlacement, numberOfSlices and viewBoxSize
\* as they were.
C14_Purity ==
    [][(dirty /\ ~dirty') =>
           /\ events' = events
           /\ dotPlacement' = dotPlacement
           /\ numberOfSlices' = numberOfSlices
           /\ viewBoxSize' = viewBoxSize]_vars

\* the getter has run on a list with events for slice 0, which it filtered
\* and sliced, and the list is as it was handed in
C14_Witness ==
    /\ Evaluated
    /\ numberOfSlices = 2
    /\ Len(events) = 3
    /\ Len(SliceAt(0).originalEvents) = 2
    /\ Len(SliceAt(0).eventDots) = 1
    /\ evaluatedInputs.events = events

\* the dot of slice record s that has the given id sits at position IdPos of
\* the slice's originalEvents
IdPos(s, id) ==
    CHOOSE p \in DOMAIN s.originalEvents : s.originalEvents[p].id = id

\* C15 (Dot position): once the engine has returned for a positive slice count
\* N, the dot of the k-th event (0-based) of slice i lies on the ray at
\* i*(360/N) - 90 + (360/N)/2 degrees, at distance
\* 0.95 * viewBoxSize/2 * (startRadiusFactor + k * radiusIncrementFactor).
\* With N = 12, viewBoxSize 200, factors 0.45 / 0.15 and cap 3, a slice with
\* four events has dots at 42.75, 57.0 and 71.25 and none for the fourth; with
\* N = 4 the mid-angles are -45, 45, 135 and 225 degrees.  Angles are in units
\* of 1/(2N) degree, distances in units of 1/20000.
C15_DotPosition ==
    Evaluated /\ numberOfSlices >= 1 =>
        /\ \A i \in SliceIndices :
              \A q \in DOMAIN SliceAt(i).eventDots :
                  LET dot == SliceAt(i).eventDots[q]
                      k == IdPos(SliceAt(i), dot.id) - 1
                  IN  /\ dot.at.deg =
                            720 * i - 180 * numberOfSlices + 360
                      /\ dot.at.r =
                            95 * viewBoxSize
                               * (dotPlacement.startRadiusFactor
                                    + k * dotPlacement.radiusIncrementFactor)
        /\ (numberOfSlices = 12 /\ dotPlacement = ViewDotPlacement) =>
              \A i \in SliceIndices :
                  Len(SliceAt(i).originalEvents) >= 4 =>
                      /\ Len(SliceAt(i).eventDots) = 3
                      /\ SliceAt(i).eventDots[1].at.r = 855000
                      /\ SliceAt(i).eventDots[2].at.r = 1140000
                      /\ SliceAt(i).eventDots[3].at.r = 1425000
                      /\ ~HasDot(SliceAt(i), SliceAt(i).originalEvents[4])
        /\ numberOfSlices = 4 =>
              \A i \in SliceIndices :
                  /\ midDeg(i, 4) = <<-45, 45, 135, 225>>[i + 1] * 8
                  /\ \A q \in DOMAIN SliceAt(i).eventDots :
                        SliceAt(i).eventDots[q].at.deg = midDeg(i, 4)

\* the 9 o'clock slice of the 12-hour view: four events, three dots on the
\* ray at 195 degrees, the outermost at 71.25
C15_Witness ==
    /\ Evaluated
    /\ numberOfSlices = 12
    /\ Len(SliceAt(9).originalEvents) = 4
    /\ Len(SliceAt(9).eventDots) = 3
    /\ SliceAt(9).eventDots[3].at = Polar(1425000, 195 * 24)

\* C16 (Dot rendering data): once the engine has returned for a positive slice
\* count, every dot of slice i carries the id and the color of an input event
\* of slice i and the radius 0.018 * viewBoxSize (in units of 1/1000); the
\* dots follow the order of the slice's originalEvents; and no dot carries the
\* id of an event of another slice.
C16_DotData ==
    Evaluated /\ numberOfSlices >= 1 =>
        \A i \in SliceIndices :
            LET s == SliceAt(i) IN
            /\ \A q \in DOMAIN s.eventDots :
                  /\ \E p \in DOMAIN events :
                        /\ events[p].id = s.eventDots[q].id
                        /\ events[p].color = s.eventDots[q].fill
                        /\ events[p].sliceIndex = Num(i)
                  /\ \E p \in DOMAIN s.originalEvents :
                        /\ s.originalEvents[p].id = s.eventDots[q].id
                        /\ s.originalEvents[p].color = s.eventDots[q].fill
                  /\ s.eventDots[q].radius = 18 * viewBoxSize
                  /\ \A j \in SliceIndices \ {i} :
                        \A p \in DOMAIN SliceAt(j).originalEvents :
                            SliceAt(j).originalEvents[p].id # s.eventDots[q].id
            /\ \A q1, q2 \in DOMAIN s.eventDots :
                  q1 < q2 =>
                      IdPos(s, s.eventDots[q1].id) < IdPos(s, s.eventDots[q2].id)

\* the three dots of the 9 o'clock slice of the 12-hour view
C16_Witness ==
    /\ Evaluated
    /\ events = TwelveHourEvents
    /\ DotIds(SliceAt(9)) = <<"evt1", "evt10", "evt11">>
    /\ SliceAt(9).eventDots[2].fill = "salmon"
    /\ SliceAt(9).eventDots[2].radius = 3600
    /\ Len(SliceAt(10).eventDots) = 1

\* the list without its p-th element
RemoveAt(seq, p) == SubSeq(seq, 1, p - 1) \o SubSeq(seq, p + 1, Len(seq))

\* C17 (Bad records are ignored): once the engine has returned, for every
\* event of the list whose sliceIndex is not an integer of [0, N) the output
\* equals the output the engine computes for the list without that event.
C17_BadEventIgnored ==
    Evaluated =>
        \A p \in DOMAIN events :
            ~InRange(events[p]) =>
                slicesWithEvents =
                    useSlicesWithEvents(RemoveAt(events, p), numberOfSlices,
                                        viewBoxSize, dotPlacement)

\* an event with sliceIndex -1 between two events that get dots
C17_Witness ==
    /\ Evaluated
    /\ numberOfSlices = 2
    /\ Len(events) = 3
    /\ events[1].sliceIndex = Num(0)
    /\ events[2].sliceIndex = -2
    /\ events[3].sliceIndex = Num(0)
    /\ Len(SliceAt(0).eventDots) = 2

\* C18 (Detail surface): in every state of the 12-hour view, a click on slice
\* i makes the modal visible and sets the displayed list to all input events
\* with sliceIndex = i, in input order, the ones without a dot included.
C18_DetailSurface ==
    [][\A i \in 0..11 :
           handleSliceClick(i) =>
               /\ isModalVisible'
               /\ selectedSliceEvents' =
                     SelectSeq(events, LAMBDA e : e.sliceIndex = Num(i))]_vars

\* the modal lists the four events of the 9 o'clock slice, which shows three
\* dots
C18_Witness ==
    /\ isModalVisible
    /\ selectedSliceIdentifier = "Hour 9 PM"
    /\ Len(selectedSliceEvents) = 4
    /\ selectedSliceEvents[4].id = "evt12"
    /\ Len(SliceAt(9).eventDots) = 3

C20_HighlightTracksHour ==
    mounted => highlightedSliceIndex = currentDateTime % 12

\* C21 (Highlight stays on the wheel): in the 12-hour view every step leaves
\* highlightedSliceIndex within [0, numberOfSlices - 1]; ArrowRight moves it
\* up by one except at numberOfSlices - 1, ArrowLeft down by one except at 0,
\* where it stays (no wrap), and both move currentDateTime by one hour.
C21_HighlightClamped ==
    [][/\ highlightedSliceIndex' \in 0..(numberOfSlices - 1)
       /\ ArrowRight =>
             /\ highlightedSliceIndex' =
                   (IF highlightedSliceIndex = numberOfSlices - 1
                    THEN highlightedSliceIndex
                    ELSE highlightedSliceIndex + 1)
             /\ currentDateTime' = (currentDateTime + 1) % 24
       /\ ArrowLeft =>
             /\ highlightedSliceIndex' =
                   (IF highlightedSliceIndex = 0
                    THEN highlightedSliceIndex
                    ELSE highlightedSliceIndex - 1)
             /\ currentDateTime' = (currentDateTime + 23) % 24]_vars

\* mounted at 23 h with slice 11 highlighted; ArrowRight moved the time to
\* 0 h and left the highlight at 11
C21_Witness ==
    /\ mounted
    /\ numberOfSlices = 12
    /\ highlightedSliceIndex = 11
    /\ currentDateTime = 0

\* C25 (The duplicated computations agree): once the composable has returned
\* for a slice count of at least 2, its result (ids, paths, eventDots and
\* originalEvents of every slice) is the one the inline computation of the
\* view modules gives for the same events, viewBoxSize and dotPlacement.
C25_EnginesAgree ==
    Evaluated /\ numberOfSlices >= 2 =>
        slicesWithEvents =
            resultSlices(events, numberOfSlices, viewBoxSize, dotPlacement)

\* the 4-week data: four wedges, two events and two dots in slice 1
C25_Witness ==
    /\ Evaluated
    /\ events = FourWeekEvents
    /\ numberOfSlices = 4
    /\ Len(SliceAt(1).eventDots) = 2
    /\ resultSlices(events, 4, viewBoxSize, dotPlacement)[2].eventDots
           = SliceAt(1).eventDots

\* the label the claim gives slice i of the shown view: Day i+1 in the 7-day
\* view, Week i+1 in the 4-week view, Hour h (AM or PM) in the 12-hour view
\* with h = 12 for i = 0 and h = i otherwise
ClaimedLabels(i) ==
    CASE numberOfSlices = 7 -> {"Day " \o ToString(i + 1)}
      [] numberOfSlices = 4 -> {"Week " \o ToString(i + 1)}
      [] OTHER -> {"Hour " \o ToString(IF i = 0 THEN 12 ELSE i) \o " " \o ampm :
                      ampm \in {"AM", "PM"}}

\* C22 (Slice labels): in every view a click on slice i labels the modal with
\* slice i's own ordinal: Day i+1, Week i+1, or Hour h with h in 1..12.
C22_SliceLabels ==
    [][\A i \in 0..11 :
           ClickSlice(i) => selectedSliceIdentifier' \in ClaimedLabels(i)]_vars

\* the names reachable from the names in S by ArrowUp / ArrowDown presses
RECURSIVE ReachableNames(_)
ReachableNames(S) ==
    LET T == S \cup {targetRouteName(n, key) :
                        n \in S, key \in {"ArrowUp", "ArrowDown"}}
    IN  IF T = S THEN S ELSE ReachableNames(T)

\* the view below / above the p-th of the stack, with wrap-around
Below(p) == viewStackOrder[(p % Len(viewStackOrder)) + 1]
Above(p) ==
    viewStackOrder[((p + Len(viewStackOrder) - 2) % Len(viewStackOrder)) + 1]

\* C23 (View-stack navigation): with the stack [4week, 7day, 12hour], ArrowDown
\* shows the next view and ArrowUp the previous one, wrapping at both ends;
\* the route changes at each such key press; ArrowUp undoes ArrowDown and
\* ArrowDown undoes ArrowUp; every view of the stack is reachable by
\* ArrowUp / ArrowDown presses from the route of path '/'; and while the
\* route's name is not in the stack the keys do not navigate.
C23_ViewStackNavigation ==
    [][/\ \A p \in DOMAIN viewStackOrder :
             routeName = viewStackOrder[p] =>
                 /\ KeydownArrowDown =>
                       (routeName' = Below(p) /\ routeName' # routeName)
                 /\ KeydownArrowUp =>
                       (routeName' = Above(p) /\ routeName' # routeName)
                 /\ targetRouteName(Below(p), "ArrowUp") = routeName
                 /\ targetRouteName(Above(p), "ArrowDown") = routeName
       /\ (\A p \in DOMAIN viewStackOrder : routeName # viewStackOrder[p]) =>
             ((KeydownArrowDown \/ KeydownArrowUp) => routeName' = routeName)
       /\ \A p \in DOMAIN viewStackOrder :
             viewStackOrder[p] \in ReachableNames({RouteAt(router, "/").name})
      ]_vars

\* C24 (Key-handler separation): ArrowLeft / ArrowRight change nothing but
\* the view's period, time and highlight; ArrowUp / ArrowDown nothing but the
\* route; Escape nothing but the modal's visibility; any other key nothing;
\* and no key changes the event list or the computed slices.
C24_KeySeparation ==
    [][/\ (KeydownArrowLeft \/ KeydownArrowRight) =>
             /\ UNCHANGED <<router, routeName>>
             /\ UNCHANGED <<mounted, isModalVisible, selectedSliceEvents,
                            selectedSliceIdentifier>>
             /\ UNCHANGED <<inputVars, computedVars>>
       /\ (KeydownArrowUp \/ KeydownArrowDown) =>
             /\ UNCHANGED <<router, currentPeriodIndex>>
             /\ UNCHANGED viewVars
             /\ UNCHANGED <<inputVars, computedVars>>
       /\ KeydownEscape =>
             /\ UNCHANGED appVars
             /\ UNCHANGED <<mounted, currentDateTime, highlightedSliceIndex,
                            selectedSliceEvents, selectedSliceIdentifier>>
             /\ UNCHANGED <<inputVars, computedVars>>
       /\ KeydownOther => UNCHANGED vars
      ]_vars

\* C26 (Modal lifecycle): the modal is hidden at first; it becomes visible
\* only by a slice click; Escape while it is visible, the close button and an
\* overlay click hide it; Escape while it is hidden changes nothing; a slice
\* click and a close change neither the event list, the computed slices, the
\* period index nor the highlighted slice; and a close leaves
\* selectedSliceEvents as it was.
C26_ModalLifecycle ==
    /\ ~isModalVisible
    /\ [][ /\ (~isModalVisible /\ isModalVisible') =>
                 \E i \in 0..11 : ClickSlice(i)
           /\ (isModalVisible /\ KeydownEscape) => ~isModalVisible'
           /\ (ClickCloseButton \/ ClickOverlay) => ~isModalVisible'
           /\ (~isModalVisible /\ KeydownEscape) => UNCHANGED vars
           /\ ((\E i \in 0..11 : ClickSlice(i)) \/ KeydownEscape
                   \/ ClickCloseButton \/ ClickOverlay) =>
                 /\ UNCHANGED <<events, slicesWithEvents>>
                 /\ UNCHANGED <<currentPeriodIndex, highlightedSliceIndex>>
           /\ (KeydownEscape \/ ClickCloseButton \/ ClickOverlay) =>
                 UNCHANGED selectedSliceEvents
          ]_vars

\* the modal was opened on the 9 o'clock slice and closed again: it is hidden
\* and the four events are still selected
C26_Witness ==
    /\ mounted
    /\ ~isModalVisible
    /\ Len(selectedSliceEvents) = 4
    /\ selectedSliceEvents = SliceAt(9).originalEvents

\* the shown view keeps a currentPeriodIndex and handles the arrow keys
PeriodViewListens ==
    mounted /\ component \in {"part_002", "FourWeekView.vue"}

====
